---- MODULE Spec2Model ----
(***************************************************************************)
(* The FargateService construct of aws-scripts: the constructor reads its  *)
(* props, compiles the task configuration's secrets into secret            *)
(* references, picks the container image, and hands the sizing, the        *)
(* environment, the image and the secrets to the load-balanced service.    *)
(*                                                                         *)
(* JavaScript values are tagged records, so that undefined, a number, a    *)
(* string and an object stay different values: the empty string is not     *)
(* undefined, and a Duration of 0 seconds is an object, hence truthy.      *)
(* Strings that the code takes apart (secret values) are sequences of      *)
(* characters; strings it only compares or passes on are atoms.            *)
(***************************************************************************)
EXTENDS Integers, Sequences, FiniteSets, TLC

VARIABLES
    pc,       \* "start": nothing constructed yet; "built"; "threw"
    props,    \* the props object of the latest constructor call, as it is after the call
    given,    \* what the caller passed to that call, as it was before the call
    service,  \* the options the latest call handed to ApplicationLoadBalancedFargateService
    earlier   \* one of the calls made before the latest one: [props, pc, service]

vars == <<pc, props, given, service, earlier>>

----------------------------------------------------------------------------
\* JavaScript values

Undefined == [type |-> "undefined"]
Num(n) == [type |-> "number", num |-> n]
\* a string the code splits: a sequence of characters
Str(s) == [type |-> "string", str |-> s]
\* a string the code only compares or forwards
Text(t) == [type |-> "string", text |-> t]
\* a plain object: a function from its own keys to their values
Obj(f) == [type |-> "object", obj |-> f]
\* cdk.Duration.seconds(n)
DurationSeconds(n) == [type |-> "object", seconds |-> n]

EmptyObject == Obj(<<>>)

\* ToBoolean, as `if (v)` and `v || d` apply it
Truthy(v) ==
    CASE v.type = "undefined" -> FALSE
      [] v.type = "number" -> v.num # 0
      [] v.type = "string" -> IF "str" \in DOMAIN v THEN Len(v.str) > 0 ELSE v.text # ""
      [] v.type = "object" -> TRUE

\* a destructuring default, `{ name = b } = o`: b stands in for undefined only
DestructuringDefault(a, b) == IF a = Undefined THEN b ELSE a

\* a ?? b: would let an explicit 0 through
LogicalOrNullish(a, b) == IF a = Undefined THEN b ELSE a

\* a || b
LogicalOr(a, b) == IF Truthy(a) THEN a ELSE b

\* o?.name where o is undefined or a record of fields
OptionalGet(o, name) == IF o = Undefined THEN Undefined ELSE o[name]

----------------------------------------------------------------------------
\* Module constants

DEFAULT_IMAGE == "nginxdemos/hello:latest"

DEFAULT_VERSION == "default"

DefaultMemoryLimitMiB == 512
DefaultGracePeriodSeconds == 60
DefaultCpu == 256
DefaultDesiredCount == 1

----------------------------------------------------------------------------
\* The secrets loop

Colon == ":"

ColonAt(s) == {i \in 1..Len(s) : s[i] = Colon}

Min(a, b) == IF a < b THEN a ELSE b

SetMin(S) == CHOOSE i \in S : \A j \in S : i <= j

\* a split at the first colon only: would keep "b:c" as one segment
RECURSIVE SplitFirstOnly(_)
SplitFirstOnly(s) ==
    IF ColonAt(s) = {} THEN <<s>>
    ELSE LET i == SetMin(ColonAt(s))
         IN <<SubSeq(s, 1, i - 1), SubSeq(s, i + 1, Len(s))>>

\* value.split(':'): the segments between the colons, at least one
RECURSIVE Split(_)
Split(s) ==
    IF ColonAt(s) = {} THEN <<s>>
    ELSE LET i == SetMin(ColonAt(s))
         IN <<SubSeq(s, 1, i - 1)>> \o Split(SubSeq(s, i + 1, Len(s)))

\* parts.slice(0, 2)
Slice02(parts) == SubSeq(parts, 1, Min(2, Len(parts)))

\* a destructuring with '' as default: would turn a missing segment into ''
ElementOrEmpty(parts, i) == IF i <= Len(parts) THEN Str(parts[i]) ELSE Str(<<>>)

\* the i-th name of an array destructuring: undefined past the end
Element(parts, i) == IF i <= Len(parts) THEN Str(parts[i]) ELSE Undefined

\* ssm.Secret.fromSecretNameV2(this, id, secretName)
FromSecretNameV2(id, secretName) == [id |-> id, secretName |-> secretName]

\* ecs.Secret.fromSecretsManager(secret, field)
FromSecretsManager(secret, field) == [secret |-> secret, field |-> field]

\* secrets[secretKey] = ref
Assign(secrets, secretKey, ref) ==
    [k \in DOMAIN secrets \cup {secretKey} |-> IF k = secretKey THEN ref ELSE secrets[k]]

Compile(secrets, secretKey, value) ==
    LET parts == Slice02(Split(value.str))
        secretName == Element(parts, 1)
        fieldName == Element(parts, 2)
        secret == FromSecretNameV2(secretKey, secretName)
    IN Assign(secrets, secretKey, FromSecretsManager(secret, fieldName))

\* the loop body without `if (value)`: would compile empty values too
LoopBodyUnguarded(secrets, secretKey, value) == Compile(secrets, secretKey, value)

\* one turn of the loop: the entry is compiled when its value is truthy
LoopBody(secrets, secretKey, value) ==
    IF Truthy(value) THEN Compile(secrets, secretKey, value) ELSE secrets

\* for (const [secretKey, value] of Object.entries(secretValues)), over the keys left
RECURSIVE ForOf(_, _, _)
ForOf(entries, left, secrets) ==
    IF left = {} THEN secrets
    ELSE LET secretKey == CHOOSE k \in left : TRUE
         IN ForOf(entries, left \ {secretKey},
                  LoopBody(secrets, secretKey, entries[secretKey]))

\* a completion: a value, or a thrown TypeError
Normal(v) == [threw |-> FALSE, value |-> v]
TypeError == [threw |-> TRUE]

\* Object.entries(o): throws on undefined
ObjectEntries(o) == IF o = Undefined THEN TypeError ELSE Normal(o.obj)

\* a secrets map shared by all instances: what the previous one was given
StaleSecrets == IF service = Undefined THEN <<>> ELSE service.secrets

\* const secrets = {}
FreshSecrets == <<>>

LoopOver(secretValues) ==
    LET entries == ObjectEntries(secretValues)
    IN IF entries.threw THEN TypeError
       ELSE Normal(ForOf(entries.value, DOMAIN entries.value, FreshSecrets))

\* the loop without `if (secretValues)`: would throw on an absent map
CompileSecretsUnguarded(secretValues) == LoopOver(secretValues)

\* if (secretValues) { for ... }
CompileSecrets(secretValues) ==
    IF Truthy(secretValues) THEN LoopOver(secretValues) ELSE Normal(FreshSecrets)

----------------------------------------------------------------------------
\* The image

FromRegistry(name) == [kind |-> "registry", name |-> name]
FromEcrRepository(repository, tag) == [kind |-> "ecr", repository |-> repository, tag |-> tag]

\* a default of 'latest': would send a call without imageVersion to the repository
ImageVersionLatest(p) == DestructuringDefault(p.imageVersion, Text("latest"))

\* imageVersion = DEFAULT_VERSION in the destructuring of props
ImageVersion(p) == DestructuringDefault(p.imageVersion, Text(DEFAULT_VERSION))

\* an image always taken from the repository, the sentinel ignored
PickImageFromRepository(imageVersion, repository) ==
    FromEcrRepository(repository, imageVersion.text)

PickImage(imageVersion, repository) ==
    IF imageVersion = Text(DEFAULT_VERSION)
    THEN FromRegistry(DEFAULT_IMAGE)
    ELSE FromEcrRepository(repository, imageVersion.text)

----------------------------------------------------------------------------
\* The options of the service

MemoryLimitMiB(tc) == LogicalOr(OptionalGet(tc, "memoryLimitMiB"), Num(DefaultMemoryLimitMiB))

HealthCheckGracePeriod(tc) ==
    LogicalOr(OptionalGet(tc, "healthCheckGracePeriod"), DurationSeconds(DefaultGracePeriodSeconds))

\* cpu read from the memoryLimitMiB field
CpuFromMemory(tc) == LogicalOr(OptionalGet(tc, "memoryLimitMiB"), Num(DefaultCpu))

Cpu(tc) == LogicalOr(OptionalGet(tc, "cpu"), Num(DefaultCpu))

DesiredCount(tc) == LogicalOr(OptionalGet(tc, "desiredCount"), Num(DefaultDesiredCount))

\* the environment without `|| {}`
EnvironmentOrUndefined(tc) == OptionalGet(tc, "environment")

Environment(tc) == LogicalOr(OptionalGet(tc, "environment"), EmptyObject)

\* the constructor up to the service: a TypeError, or the options it passes
FargateService(p) ==
    LET taskConfiguration == p.taskConfiguration
    IN IF taskConfiguration = Undefined THEN TypeError
       ELSE LET secrets == CompileSecrets(taskConfiguration.secrets)
                image == PickImage(ImageVersion(p), p.repository)
            IN IF secrets.threw THEN TypeError
               ELSE Normal([memoryLimitMiB |-> MemoryLimitMiB(taskConfiguration),
                            healthCheckGracePeriod |-> HealthCheckGracePeriod(taskConfiguration),
                            cpu |-> Cpu(taskConfiguration),
                            desiredCount |-> DesiredCount(taskConfiguration),
                            image |-> image,
                            environment |-> Environment(taskConfiguration),
                            secrets |-> secrets.value])

----------------------------------------------------------------------------
\* Inputs

\* the longest secret value enumerated character by character
MaxLen == 1

Chars == {"a", Colon}

RECURSIVE StringsOfLen(_)
StringsOfLen(n) ==
    IF n = 0 THEN {<<>>}
    ELSE {Append(s, c) : s \in StringsOfLen(n - 1), c \in Chars}

Strings == UNION {StringsOfLen(n) : n \in 0..MaxLen}

SecretKeys == {"K1", "K2"}

MySecret == <<"m", "y", "-", "s", "e", "c", "r", "e", "t">>

Password == <<"p", "a", "s", "s", "w", "o", "r", "d">>

\* secrets maps with values of realistic length: a name with and without a
\* field, an empty value, and a value of three segments
ExampleSecretMaps ==
    {[k \in {"DB_PASS"} |-> Str(MySecret \o <<Colon>> \o Password)],
     [k \in {"DB_PASS"} |-> Str(MySecret)],
     [k \in {"X"} |-> Str(<<>>)],
     [k \in {"X"} |-> Str(<<"a", Colon, "b", Colon, "c">>)]}

SecretMaps ==
    UNION {[D -> {Str(s) : s \in Strings}] : D \in SUBSET SecretKeys} \cup ExampleSecretMaps

EnvironmentMaps == {<<>>, [k \in {"K1"} |-> Text("x")]}

Sizes == {Undefined, Num(0), Num(1024)}

GracePeriods == {Undefined, DurationSeconds(0), DurationSeconds(120)}

TaskConfigurations ==
    [memoryLimitMiB : Sizes,
     healthCheckGracePeriod : GracePeriods,
     cpu : Sizes,
     desiredCount : Sizes,
     environment : {Undefined} \cup {Obj(e) : e \in EnvironmentMaps},
     secrets : {Undefined} \cup {Obj(m) : m \in SecretMaps}]

ImageVersions == {Undefined, Text(DEFAULT_VERSION), Text("v2"), Text("")}

Repositories == {"repoA", "repoB"}

AllProps ==
    [imageVersion : ImageVersions,
     repository : Repositories,
     taskConfiguration : {Undefined} \cup TaskConfigurations]

----------------------------------------------------------------------------
\* The state machine: constructor calls, one after another

Init ==
    /\ pc = "start"
    /\ props = Undefined
    /\ given = Undefined
    /\ service = Undefined
    /\ earlier = Undefined

\* new FargateService(scope, id, p)
New(p) ==
    LET done == FargateService(p)
    IN /\ given' = p
       /\ props' = p
       /\ pc' = IF done.threw THEN "threw" ELSE "built"
       /\ service' = IF done.threw THEN Undefined ELSE done.value

\* the inputs of the calls that follow the first one
CallSecretMaps ==
    {<<>>,
     [k \in {"K1"} |-> Str(<<"a", Colon>>)],
     [k \in {"K2"} |-> Str(<<"a">>)],
     [k \in {"K1", "K2"} |-> IF k = "K1" THEN Str(<<>>) ELSE Str(<<Colon, "a">>)]}

CallConfigurations ==
    [memoryLimitMiB : {Undefined},
     healthCheckGracePeriod : {Undefined},
     cpu : {Undefined, Num(1024)},
     desiredCount : {Undefined},
     environment : {Undefined, Obj([k \in {"K1"} |-> Text("x")])},
     secrets : {Undefined} \cup {Obj(m) : m \in CallSecretMaps}]

CallProps ==
    [imageVersion : {Undefined, Text("v2")},
     repository : {"repoA"},
     taskConfiguration : {Undefined} \cup CallConfigurations]

\* the first instance of the application
First ==
    /\ pc = "start"
    /\ \E p \in AllProps : New(p)
    /\ UNCHANGED earlier

\* a further instance; the call before it may be the one kept in `earlier`
Again ==
    /\ pc \in {"built", "threw"}
    /\ given \in CallProps
    /\ \E p \in CallProps : New(p)
    /\ earlier' \in {earlier, [props |-> given, pc |-> pc, service |-> service]}

Next == First \/ Again

Spec == Init /\ [][Next]_vars

----------------------------------------------------------------------------
\* What the claims speak of

Built == pc = "built"

\* the task configuration the caller passed
Config == given.taskConfiguration

\* the secrets map the caller passed, when there is one
SecretsIn == Config.secrets.obj

HasSecretsIn == Built /\ Config.secrets # Undefined

NoColonIn(s) == \A i \in 1..Len(s) : s[i] # ":"

\* n is the text of v before its first ':', or all of v when v has none
IsTextBeforeFirstColon(n, v) ==
    /\ Len(n) <= Len(v)
    /\ n = SubSeq(v, 1, Len(n))
    /\ NoColonIn(n)
    /\ Len(n) < Len(v) => v[Len(n) + 1] = ":"

\* f is the text of v between its first ':' and its second, or its end
IsTextAfterFirstColon(f, v) ==
    \E i \in 1..Len(v) :
        /\ v[i] = ":"
        /\ NoColonIn(SubSeq(v, 1, i - 1))
        /\ i + Len(f) <= Len(v)
        /\ f = SubSeq(v, i + 1, i + Len(f))
        /\ NoColonIn(f)
        /\ i + Len(f) < Len(v) => v[i + Len(f) + 1] = ":"

AllAbsent ==
    /\ Config.memoryLimitMiB = Undefined
    /\ Config.healthCheckGracePeriod = Undefined
    /\ Config.cpu = Undefined
    /\ Config.desiredCount = Undefined

\* C1: a sizing field that is absent or falsy (an explicit 0 for the three
\* numbers, absent for the grace period) comes out as its default: 512, 256, 1
\* and 60 seconds; the empty configuration yields exactly the four defaults.
C1_DefaultsWhenAbsentOrFalsy ==
    Built =>
        /\ Config.memoryLimitMiB \in {Undefined, Num(0)} => service.memoryLimitMiB = Num(512)
        /\ Config.cpu \in {Undefined, Num(0)} => service.cpu = Num(256)
        /\ Config.desiredCount \in {Undefined, Num(0)} => service.desiredCount = Num(1)
        /\ Config.healthCheckGracePeriod = Undefined
              => service.healthCheckGracePeriod = DurationSeconds(60)

C1_Witness ==
    /\ Built
    /\ Config.memoryLimitMiB = Num(0) /\ Config.cpu = Num(0) /\ Config.desiredCount = Num(0)
    /\ Config.healthCheckGracePeriod = Undefined
    /\ service.memoryLimitMiB = Num(512) /\ service.cpu = Num(256)
    /\ service.desiredCount = Num(1)
    /\ service.healthCheckGracePeriod = DurationSeconds(60)

\* C2: the compiled secrets have exactly as many entries as the input has
\* entries with a non-empty value, hence at most as many as the input; an entry
\* whose value is empty is dropped.
C2_SecretCount ==
    HasSecretsIn =>
        /\ Cardinality(DOMAIN service.secrets)
              = Cardinality({k \in DOMAIN SecretsIn : SecretsIn[k] # Str(<<>>)})
        /\ Cardinality(DOMAIN service.secrets) <= Cardinality(DOMAIN SecretsIn)
        /\ \A k \in DOMAIN SecretsIn : SecretsIn[k] = Str(<<>>) => k \notin DOMAIN service.secrets

C2_Witness ==
    /\ HasSecretsIn
    /\ DOMAIN SecretsIn = {"K1", "K2"}
    /\ SecretsIn["K1"] = Str(<<>>)
    /\ SecretsIn["K2"] # Str(<<>>)
    /\ DOMAIN service.secrets = {"K2"}

\* C3: every entry with a non-empty value is compiled under its own key; its
\* secretName is the text before the first ':', and, when the value has a ':',
\* its fieldName is the text between the first ':' and the second (or the end):
\* what follows the second ':' is discarded.
C3_SecretParts ==
    HasSecretsIn =>
        \A k \in DOMAIN SecretsIn :
            LET v == SecretsIn[k].str
            IN v # <<>> =>
                /\ k \in DOMAIN service.secrets
                /\ service.secrets[k].secret.secretName.type = "string"
                /\ IsTextBeforeFirstColon(service.secrets[k].secret.secretName.str, v)
                /\ ~NoColonIn(v) =>
                      /\ service.secrets[k].field.type = "string"
                      /\ IsTextAfterFirstColon(service.secrets[k].field.str, v)

C3_Witness ==
    /\ HasSecretsIn
    /\ DOMAIN SecretsIn = {"X"}
    /\ SecretsIn["X"] = Str(<<"a", ":", "b", ":", "c">>)
    /\ service.secrets["X"].secret.secretName = Str(<<"a">>)
    /\ service.secrets["X"].field = Str(<<"b">>)

\* C4 as claimed: a non-empty value without ':' is compiled, without an error,
\* to the whole value as secretName and the empty string as fieldName.
C4_FieldNameEmptyString ==
    HasSecretsIn =>
        \A k \in DOMAIN SecretsIn :
            LET v == SecretsIn[k].str
            IN (v # <<>> /\ NoColonIn(v)) =>
                /\ k \in DOMAIN service.secrets
                /\ service.secrets[k].secret.secretName = Str(v)
                /\ service.secrets[k].field = Str(<<>>)

\* C4, amended: a non-empty value without ':' is compiled, without an error, to
\* the whole value as secretName and to no fieldName at all (undefined), which
\* is not the empty fieldName that a value ending in ':' gets.
C4_FieldNameUndefined ==
    /\ (given # Undefined /\ Config # Undefined) => pc # "threw"
    /\ HasSecretsIn =>
        \A k \in DOMAIN SecretsIn :
            LET v == SecretsIn[k].str
            IN /\ (v # <<>> /\ NoColonIn(v)) =>
                    /\ k \in DOMAIN service.secrets
                    /\ service.secrets[k].secret.secretName = Str(v)
                    /\ service.secrets[k].field = Undefined
               /\ (v # <<>> /\ v[Len(v)] = ":" /\ NoColonIn(SubSeq(v, 1, Len(v) - 1))) =>
                    service.secrets[k].field = Str(<<>>)

C4_Witness ==
    /\ HasSecretsIn
    /\ DOMAIN SecretsIn = {"DB_PASS"}
    /\ SecretsIn["DB_PASS"] = Str(<<"m", "y", "-", "s", "e", "c", "r", "e", "t">>)
    /\ service.secrets["DB_PASS"].secret.secretName = SecretsIn["DB_PASS"]
    /\ service.secrets["DB_PASS"].field = Undefined

\* C5: the selector "default" gives the fixed public image, whatever the
\* repository; any other selector gives the caller's repository tagged with
\* exactly that selector.
C5_ImageBySelector ==
    (Built /\ given.imageVersion # Undefined) =>
        IF given.imageVersion = Text("default")
        THEN service.image = [kind |-> "registry", name |-> "nginxdemos/hello:latest"]
        ELSE service.image = [kind |-> "ecr", repository |-> given.repository,
                              tag |-> given.imageVersion.text]

C5_Witness ==
    /\ Built
    /\ given.imageVersion = Text("default")
    /\ given.repository = "repoB"
    /\ service.image = [kind |-> "registry", name |-> "nginxdemos/hello:latest"]

\* C6: a sizing field given a truthy value comes out unchanged, and a
\* configuration that sets only cpu, to a positive n, gets cpu = n and the
\* defaults 512, 1 and 60 seconds for the other three.
C6_SuppliedSizingKept ==
    Built =>
        /\ (Config.memoryLimitMiB # Undefined /\ Config.memoryLimitMiB.num > 0)
              => service.memoryLimitMiB = Config.memoryLimitMiB
        /\ (Config.cpu # Undefined /\ Config.cpu.num > 0) => service.cpu = Config.cpu
        /\ (Config.desiredCount # Undefined /\ Config.desiredCount.num > 0)
              => service.desiredCount = Config.desiredCount
        /\ Config.healthCheckGracePeriod # Undefined
              => service.healthCheckGracePeriod = Config.healthCheckGracePeriod
        /\ (/\ Config.cpu # Undefined /\ Config.cpu.num > 0
            /\ Config.memoryLimitMiB = Undefined
            /\ Config.desiredCount = Undefined
            /\ Config.healthCheckGracePeriod = Undefined)
              => /\ service.cpu = Config.cpu
                 /\ service.memoryLimitMiB = Num(512)
                 /\ service.desiredCount = Num(1)
                 /\ service.healthCheckGracePeriod = DurationSeconds(60)

C6_Witness ==
    /\ Built
    /\ Config.cpu = Num(1024)
    /\ Config.memoryLimitMiB = Undefined
    /\ Config.desiredCount = Undefined
    /\ Config.healthCheckGracePeriod = Undefined
    /\ service.cpu = Num(1024)
    /\ service.memoryLimitMiB = Num(512)

\* C7: whichever optional fields of a task configuration are absent, the
\* constructor raises no error and each absent field takes its default; an
\* absent secrets map gives an empty secret mapping.
C7_AbsentFieldsNeverThrow ==
    (pc # "start" /\ Config # Undefined) =>
        /\ Built
        /\ Config.memoryLimitMiB = Undefined => service.memoryLimitMiB = Num(512)
        /\ Config.cpu = Undefined => service.cpu = Num(256)
        /\ Config.desiredCount = Undefined => service.desiredCount = Num(1)
        /\ Config.healthCheckGracePeriod = Undefined
              => service.healthCheckGracePeriod = DurationSeconds(60)
        /\ Config.environment = Undefined => service.environment = Obj(<<>>)
        /\ Config.secrets = Undefined => service.secrets = <<>>

C7_Witness ==
    /\ Built
    /\ AllAbsent
    /\ Config.environment = Undefined
    /\ Config.secrets = Undefined
    /\ service.secrets = <<>>
    /\ service.environment = Obj(<<>>)
    /\ service.cpu = Num(256)

C9_NoVersionMeansPlaceholder ==
    Built =>
        /\ given.imageVersion = Undefined
              => service.image = [kind |-> "registry", name |-> "nginxdemos/hello:latest"]
        /\ service.image.kind = "ecr"
              => (given.imageVersion # Undefined /\ given.imageVersion # Text("default"))

C9_Witness ==
    /\ Built
    /\ given.imageVersion = Undefined
    /\ service.image = [kind |-> "registry", name |-> "nginxdemos/hello:latest"]

\* C10: the environment handed to the service is the configuration's own when
\* there is one, the empty one included, and the empty map otherwise; the keys
\* of the secret mapping come from the secrets map alone.
C10_EnvironmentPassedThrough ==
    Built =>
        /\ Config.environment # Undefined => service.environment = Config.environment
        /\ Config.environment = Undefined => service.environment = Obj(<<>>)
        /\ DOMAIN service.secrets
              \subseteq (IF Config.secrets = Undefined THEN {} ELSE DOMAIN SecretsIn)

C10_Witness ==
    /\ Built
    /\ Config.environment = Obj([k \in {"K1"} |-> Text("x")])
    /\ service.environment = Config.environment
    /\ Config.secrets # Undefined
    /\ DOMAIN SecretsIn = {"K2"}
    /\ DOMAIN service.secrets = {"K2"}

====
